---- MODULE Spec2Model ----
(***************************************************************************)
(* RSS NewsHub: the news aggregator component (NewsAggregator) and the     *)
(* feed fetcher (fetchRSSFeed).                                            *)
(*                                                                         *)
(* Time is counted in hours.  A Date is its timestamp; an invalid Date is  *)
(* the timestamp NaN.  Strings that hold dates are records that name       *)
(* their format, so that formatting and parsing are separate conversions.  *)
(***************************************************************************)
EXTENDS Integers, Sequences, FiniteSets, TLC

VARIABLES
    newsItems,    \* useState<NewsItem[]>([])           the displayed collection
    feeds,        \* useState<RSSFeed[]>([])            the feed list
    isLoading,    \* useState(false)
    error,        \* useState<string | null>(null)
    lastUpdated,  \* useState<Date | null>(null)
    feedsRequest, \* the fetch('/feeds.json') of the mount effect: "pending" | "done"
    calls,        \* the invocations of fetchAllNews that are suspended at their await
    now,          \* the wall clock (Date.now())
    last,         \* history: what the most recent step of the aggregator did
    env,          \* import.meta.env: the API keys of the build
    aiGuidedNews, \* the useState cells of the AI search view
    search,       \* the invocation of handleSearch that is suspended at an await
    filters       \* selectedCategory, searchTerm, showFavorites, dateFilter (useState)

vars == <<newsItems, feeds, isLoading, error, lastUpdated, feedsRequest, calls, now, last,
          env, aiGuidedNews, search, filters>>

-----------------------------------------------------------------------------
(* Bounds of the model                                                     *)

T0 == 20000          \* the clock's first value
MaxTicks == 1        \* the clock advances at most this many hours
MaxItems == 4        \* <item> elements of one feed document
MaxInFlight == 1     \* invocations of fetchAllNews suspended at the same time
MaxOverlap == 2      \* the same, where refreshes overlap
MaxFeeds == 27       \* feeds of a long feed list
Days400 == 9600      \* 400 days, in hours

(* Program constants                                                       *)
OneYear == 8760              \* setFullYear(getFullYear() - 1), in hours
NumProxies == 3              \* proxyUrls.length
MaxFeedsPerPass == 25        \* activeFeeds.slice(0, 25)

NaN == 0 - 1                 \* the timestamp of an invalid Date
NULL == "null"

ErrNoActiveFeeds == "No active RSS feeds configured."
ErrFeedList == "Failed to load RSS feed list."
ErrFetchNews == "Failed to fetch news. Please check your internet connection."

-----------------------------------------------------------------------------
(* The world outside: feeds.json and what the feeds serve                  *)

Links == {"L1", "L2"}

\* /feeds.json: the static list of {id, url, title, isActive}
FeedsJson(a1, a2) ==
    << [id |-> "f1", url |-> "uA", title |-> "A", isActive |-> a1],
       [id |-> "f2", url |-> "uB", title |-> "B", isActive |-> a2] >>

FeedIds == {"f1", "f2"}

\* the text of a <pubDate> element
Rfc822(t) == [fmt |-> "rfc822", t |-> t]
Garbage == [fmt |-> "garbage", t |-> 0]

\* Date.prototype.toISOString
ToISOString(t) == [fmt |-> "iso", t |-> t]

\* new Date(string).getTime()
DateParse(s) == IF s.fmt \in {"rfc822", "iso"} THEN s.t ELSE NaN

\* an <item> element.  fault tells whether processing it raises an exception inside
\* the try block of the forEach body: "none", "early" (while its fields are read,
\* before the checks) or "late" (between seenLinks.add and newsItems.push)
RawItem(title, link, pubDate) ==
    [title |-> title, description |-> "", link |-> link, pubDate |-> pubDate,
     fault |-> "none"]

\* an <item> element with a <description>
Story(title, description, link, pubDate) ==
    [RawItem(title, link, pubDate) EXCEPT !.description = description]

\* an item dated now whose processing raises an exception
ItemThrowing(link, t, where) == [RawItem("T", link, Rfc822(t)) EXCEPT !.fault = where]

\* <item> elements of the feeds at time t: dated now, exactly one year ago, one hour ahead
ItemNow(link, t) == RawItem("T", link, Rfc822(t))
ItemYearOld(link, t) == RawItem("T", link, Rfc822(t - OneYear))
ItemAhead(link, t) == RawItem("T", link, Rfc822(t + 1))

\* a title that is markup and no text, and title.replace(/<[^>]*>/g, '')
TagsOnly == "<b></b>"
StripTags(s) == IF s = TagsOnly THEN "" ELSE s

\* the same with the malformed ones: 400 days old, one hour more than a year old,
\* no date that parses, a blank title, no link, a title of markup only
AnyItems(t) ==
    { ItemNow(l, t) : l \in Links }
    \cup { ItemYearOld("L1", t),
           RawItem("T", "L1", Rfc822(t - Days400)),
           RawItem("T", "L1", Rfc822(t - OneYear - 1)),
           ItemAhead("L2", t),
           RawItem("T", "L1", Garbage),
           RawItem(" ", "L2", Rfc822(t)),
           RawItem("T", "", Rfc822(t)),
           RawItem(TagsOnly, "L2", Rfc822(t)) }

RECURSIVE SeqsUpTo(_, _)
SeqsUpTo(S, n) ==
    IF n = 0 THEN { <<>> }
    ELSE LET shorter == SeqsUpTo(S, n - 1)
         IN  shorter \cup { Append(s, x) : s \in { q \in shorter : Len(q) = n - 1 }, x \in S }

\* what a proxy hands back for a feed: a document of items, or text that is not XML
DocumentsOf(items) ==
    { [xml |-> "ok", items |-> s] : s \in SeqsUpTo(items, MaxItems) }
    \cup { [xml |-> "parsererror", items |-> <<>>] }

\* every document of at most MaxItems items, malformed items included
AnyDocuments(t) == DocumentsOf(AnyItems(t))

Xml(items) == [xml |-> "ok", items |-> items]

\* the documents the feeds serve to a refresh at time t: no item, one item, two
\* items out of date order, a rejected item before an accepted one, one link twice,
\* and text that is not XML
Documents(t) ==
    { Xml(<<>>),
      Xml(<< ItemNow("L1", t) >>),
      Xml(<< ItemNow("L2", t) >>),
      Xml(<< ItemYearOld("L1", t), ItemNow("L2", t) >>),
      Xml(<< ItemAhead("L2", t), ItemNow("L1", t) >>),
      Xml(<< ItemNow("L1", t), ItemYearOld("L1", t) >>),
      [xml |-> "parsererror", items |-> <<>>] }

\* why one proxy attempt fails
ProxyFailures == {"http", "empty", "network", "timeout"}


-----------------------------------------------------------------------------
(* Sequence helpers (Array.prototype methods)                              *)

Range(s) == { s[i] : i \in DOMAIN s }

Min(a, b) == IF a <= b THEN a ELSE b

\* String.prototype.trim on the strings of the model
Trim(s) == IF s = " " THEN "" ELSE s

\* Array.prototype.flat on an array of arrays
RECURSIVE Flat(_)
Flat(arrays) ==
    IF arrays = <<>> THEN <<>> ELSE Head(arrays) \o Flat(Tail(arrays))

\* new Date(item.pubDate).getTime()
PubTime(item) == DateParse(item.pubDate)

-----------------------------------------------------------------------------
(* Text (String.prototype methods)                                         *)

\* the characters of the strings of the model; any other string counts as one
\* character
Chars(s) ==
    CASE s = "" -> <<>>
      [] s = " " -> << " " >>
      [] s = "." -> << "." >>
      [] s = "..." -> << ".", ".", "." >>
      [] s = "T" -> << "T" >>
      [] s = "VO" -> << "V", "O" >>
      [] s = "Rust" -> << "R", "u", "s", "t" >>
      [] s = "rust" -> << "r", "u", "s", "t" >>
      [] s = "RUST" -> << "R", "U", "S", "T" >>
      [] s = "RUST..." -> << "R", "U", "S", "T", ".", ".", "." >>
      [] s = "Vote" -> << "V", "o", "t", "e" >>
      [] s = "vote" -> << "v", "o", "t", "e" >>
      [] s = "General" -> << "G", "e", "n", "e", "r", "a", "l" >>
      [] s = "Politics" -> << "P", "o", "l", "i", "t", "i", "c", "s" >>
      [] s = "Technology" -> << "T", "e", "c", "h", "n", "o", "l", "o", "g", "y" >>
      [] OTHER -> << s >>

\* the UTF-16 code unit of a character
CharCode(c) ==
    CASE c = " " -> 32 [] c = "." -> 46
      [] c = "G" -> 71 [] c = "O" -> 79 [] c = "P" -> 80 [] c = "R" -> 82
      [] c = "S" -> 83 [] c = "T" -> 84 [] c = "U" -> 85 [] c = "V" -> 86
      [] c = "a" -> 97 [] c = "c" -> 99 [] c = "e" -> 101 [] c = "g" -> 103
      [] c = "h" -> 104 [] c = "i" -> 105 [] c = "l" -> 108 [] c = "n" -> 110
      [] c = "o" -> 111 [] c = "r" -> 114 [] c = "s" -> 115 [] c = "t" -> 116
      [] c = "u" -> 117 [] c = "v" -> 118 [] c = "y" -> 121
      [] OTHER -> 0

\* a < b on strings: the first code unit that differs decides, a proper prefix is less
RECURSIVE CharsLess(_, _)
CharsLess(a, b) ==
    IF b = <<>> THEN FALSE
    ELSE IF a = <<>> THEN TRUE
    ELSE IF Head(a) = Head(b) THEN CharsLess(Tail(a), Tail(b))
    ELSE CharCode(Head(a)) < CharCode(Head(b))

\* String.prototype.toLowerCase, on characters
LowerChar(c) ==
    CASE c = "G" -> "g" [] c = "O" -> "o" [] c = "P" -> "p" [] c = "R" -> "r"
      [] c = "S" -> "s" [] c = "T" -> "t" [] c = "U" -> "u" [] c = "V" -> "v"
      [] OTHER -> c

ToLowerCase(chars) == [i \in DOMAIN chars |-> LowerChar(chars[i])]

\* String.prototype.includes, on characters
Includes(chars, part) ==
    \E i \in 0..(Len(chars) - Len(part)) : SubSeq(chars, i + 1, i + Len(part)) = part

\* Array.prototype.sort is stable: x goes after every element that does not sort after it
RECURSIVE InsertByDateDesc(_, _)
InsertByDateDesc(sorted, x) ==
    IF sorted = <<>> THEN << x >>
    ELSE IF PubTime(x) - PubTime(Head(sorted)) > 0
         THEN << x >> \o sorted
         ELSE << Head(sorted) >> \o InsertByDateDesc(Tail(sorted), x)

RECURSIVE SortedOnto(_, _)
SortedOnto(sorted, rest) ==
    IF rest = <<>> THEN sorted
    ELSE SortedOnto(InsertByDateDesc(sorted, Head(rest)), Tail(rest))

\* (mutation: the array is left in the order it has)
SortByDateDescOff(items) == items

\* items.sort((a, b) => new Date(b.pubDate).getTime() - new Date(a.pubDate).getTime())
SortByDateDesc(items) == SortedOnto(<<>>, items)

\* self.findIndex(t => t.link === item.link), 1-based
FindIndexByLink(self, link) ==
    CHOOSE i \in DOMAIN self :
        /\ self[i].link = link
        /\ \A j \in 1..(i - 1) : self[j].link # link

RECURSIVE FilterFirstByLink(_, _)
FilterFirstByLink(self, index) ==
    IF index > Len(self) THEN <<>>
    ELSE (IF index = FindIndexByLink(self, self[index].link) THEN << self[index] >> ELSE <<>>)
         \o FilterFirstByLink(self, index + 1)

\* (mutation: of two entries with one link the later one is kept)
UniqueByLinkLast(allNews) ==
    LET lastIndex(link) == CHOOSE i \in DOMAIN allNews :
                               /\ allNews[i].link = link
                               /\ \A j \in (i + 1)..Len(allNews) : allNews[j].link # link
        kept == { i \in DOMAIN allNews : i = lastIndex(allNews[i].link) }
        RECURSIVE pick(_)
        pick(i) == IF i > Len(allNews) THEN <<>>
                   ELSE (IF i \in kept THEN << allNews[i] >> ELSE <<>>) \o pick(i + 1)
    IN  pick(1)

\* (mutation: the filter is left out)
UniqueByLinkOff(allNews) == allNews

\* allNews.filter((item, index, self) => index === self.findIndex(t => t.link === item.link))
UniqueByLink(allNews) == FilterFirstByLink(allNews, 1)

-----------------------------------------------------------------------------
(* fetchRSSFeed                                                            *)

\* a Promise<NewsItem[]>: pending at a proxy attempt, fulfilled with a value, or
\* rejected.  path tells which return statement fulfilled it (the console shows it).
Pending(i) == [st |-> "pending", proxy |-> i, value |-> <<>>, path |-> ""]
Fulfilled(value, path) == [st |-> "fulfilled", proxy |-> 0, value |-> value, path |-> path]
Rejected == [st |-> "rejected", proxy |-> 0, value |-> <<>>, path |-> "throw"]

\* const oneYearAgo = new Date(); oneYearAgo.setFullYear(oneYearAgo.getFullYear() - 1)
OneYearAgo(t) == t - OneYear

\* (mutation: the check against oneYearAgo is left out)
DateAcceptedAnyAge(pubDate, oneYearAgo, t) ==
    /\ ~(pubDate = NaN)
    /\ ~(pubDate > t)

\* (mutation: the check against now is left out)
DateAcceptedAhead(pubDate, oneYearAgo, t) ==
    ~(pubDate = NaN \/ pubDate < oneYearAgo)

\* the date checks of one item: true when the item is kept
DateAccepted(pubDate, oneYearAgo, t) ==
    /\ ~(pubDate = NaN \/ pubDate < oneYearAgo)
    /\ ~(pubDate > t)

\* description.substring(0, 200): the descriptions of the model are shorter
Substring200(s) == s

\* the strings of the model that hold a keyword, in whatever case
Holding(keyword) ==
    CASE keyword = "vote" -> {"Vote"}
      [] keyword = "rust" -> {"Rust", "RUST"}
      [] OTHER -> {}

\* categorizeNews of './categorizer': a label found by keywords in the title and the
\* description, 'General' when no keyword is found
categorizeNews(title, description) ==
    IF title \in Holding("vote") \/ description \in Holding("vote") THEN "Politics"
    ELSE IF title \in Holding("rust") \/ description \in Holding("rust") THEN "Technology"
    ELSE "General"

\* the object pushed for an accepted item.  The id is sourceName-index-Date.now()
\* without its random suffix: source, index and time already tell the articles of
\* one collection apart, the titles of the feeds being distinct.
NewsItem(item, index, pubDate, sourceName, t) ==
    [ id          |-> << sourceName, index, t >>,
      title       |-> StripTags(item.title),
      description |-> Substring200(StripTags(item.description)) \o "...",
      link        |-> item.link,
      pubDate     |-> ToISOString(pubDate),
      category    |-> categorizeNews(item.title, item.description),
      source      |-> sourceName,
      isFavorite  |-> FALSE ]

\* (mutation: the link is recorded as seen before the date is looked at)
ProcessItemSeenBeforeDate(acc, item, index, sourceName, oneYearAgo, t) ==
    IF item.fault = "early" THEN acc
    ELSE IF Trim(item.title) = "" \/ Trim(item.link) = "" THEN acc
    ELSE IF item.link \in acc.seenLinks THEN acc
    ELSE LET pubDate == DateParse(item.pubDate)
             seen == [acc EXCEPT !.seenLinks = @ \cup { item.link }]
         IN  IF ~DateAccepted(pubDate, oneYearAgo, t) THEN seen
             ELSE IF item.fault = "late" THEN seen
                  ELSE [seen EXCEPT !.newsItems =
                            Append(@, NewsItem(item, index, pubDate, sourceName, t))]

\* (mutation: seenLinks is not consulted)
ProcessItemIgnoringSeen(acc, item, index, sourceName, oneYearAgo, t) ==
    IF Trim(item.title) = "" \/ Trim(item.link) = "" THEN acc
    ELSE LET pubDate == DateParse(item.pubDate)
         IN  IF ~DateAccepted(pubDate, oneYearAgo, t) THEN acc
             ELSE [ newsItems |-> Append(acc.newsItems,
                                         NewsItem(item, index, pubDate, sourceName, t)),
                    seenLinks |-> acc.seenLinks \cup { item.link } ]

\* the body of items.forEach((item, index) => ...): acc holds newsItems and seenLinks
ProcessItem(acc, item, index, sourceName, oneYearAgo, t) ==
    IF item.fault = "early" THEN acc
    ELSE IF Trim(item.title) = "" \/ Trim(item.link) = "" THEN acc
    ELSE IF item.link \in acc.seenLinks THEN acc
    ELSE LET pubDate == DateParse(item.pubDate)
         IN  IF ~DateAccepted(pubDate, oneYearAgo, t) THEN acc
             ELSE IF item.fault = "late"
                  THEN [acc EXCEPT !.seenLinks = @ \cup { item.link }]
                  ELSE [ newsItems |-> Append(acc.newsItems,
                                              NewsItem(item, index, pubDate, sourceName, t)),
                         seenLinks |-> acc.seenLinks \cup { item.link } ]

RECURSIVE ForEachItem(_, _, _, _, _, _)
ForEachItem(acc, items, index, sourceName, oneYearAgo, t) ==
    IF index >= Len(items) THEN acc
    ELSE ForEachItem(ProcessItem(acc, items[index + 1], index, sourceName, oneYearAgo, t),
                     items, index + 1, sourceName, oneYearAgo, t)

\* (mutation: only the network and timeout branches return [], the rest rethrows)
OuterCatchRethrows(kind) ==
    IF kind = "network" THEN Fulfilled(<<>>, "failed")
    ELSE IF kind = "timeout" THEN Fulfilled(<<>>, "failed")
    ELSE Rejected

\* the outer catch block: every branch returns []
OuterCatch(kind) ==
    IF kind = "network" THEN Fulfilled(<<>>, "failed")
    ELSE IF kind = "timeout" THEN Fulfilled(<<>>, "failed")
    ELSE Fulfilled(<<>>, "failed")

\* (mutation: parsererror is not looked for; such a document has no item)
ParseAndExtractUnchecked(doc, sourceName, t) ==
    IF Len(doc.items) = 0 THEN Fulfilled(<<>>, "empty")
    ELSE LET acc == ForEachItem([newsItems |-> <<>>, seenLinks |-> {}],
                                doc.items, 0, sourceName, OneYearAgo(t), t)
         IN  Fulfilled(SortByDateDesc(acc.newsItems), "ok")

\* from the payload of the proxy that answered to the return value
ParseAndExtract(doc, sourceName, t) ==
    IF doc.xml = "parsererror" THEN OuterCatch("xml")
    ELSE IF Len(doc.items) = 0 THEN Fulfilled(<<>>, "empty")
    ELSE LET acc == ForEachItem([newsItems |-> <<>>, seenLinks |-> {}],
                                doc.items, 0, sourceName, OneYearAgo(t), t)
         IN  Fulfilled(SortByDateDesc(acc.newsItems), "ok")

\* (mutation: after a failure the loop skips one proxy)
AfterProxyFailureSkipping(i, kind) ==
    IF i >= NumProxies - 1 THEN OuterCatch(kind) ELSE Pending(i + 2)

\* proxy attempt i failed: try the next one, or rethrow from the last into the outer catch
AfterProxyFailure(i, kind) ==
    IF i = NumProxies THEN OuterCatch(kind) ELSE Pending(i + 1)

-----------------------------------------------------------------------------
(* NewsAggregator: state                                                   *)

\* a Date | null state value: <<>> is null, << t >> a Date
NoDate == <<>>
DateAt(t) == << t >>

\* no invocation of fetchAllNews in this slot.  The fields of a slot:
\*   feedsToFetch, newsItems  what the invocation holds in its scope
\*   promises                 allNewsPromises
\*   after      history: the invocations still suspended that were called before it
\*   overtaken  history: an invocation called after it has already completed
Idle == [active |-> FALSE, feedsToFetch |-> <<>>, newsItems |-> <<>>, promises |-> <<>>,
         after |-> {}, overtaken |-> FALSE]

\* history values: what the step just taken was.
\*   ev       "start" | "config" | "success" | "error" for a step of fetchAllNews,
\*            "none" for every other step
\*   feeds    the feeds fetched, and
\*   results  their promises as fetchRSSFeed settled them
\*   doc      the payload whose processing settled the last promise (NoDoc: a failure)
\*   k        the index of the promise that settled last
\*   replaced the favorites (link and id) of the collection that was replaced
\*   stale    the completed invocation had been overtaken by one called after it
NoDoc == [xml |-> "none", items |-> <<>>]
NoEvent == [ev |-> "none", feeds |-> <<>>, results |-> <<>>, doc |-> NoDoc, k |-> 0,
            replaced |-> {}, stale |-> FALSE]
Started == [NoEvent EXCEPT !.ev = "start"]
ConfigError == [NoEvent EXCEPT !.ev = "config"]
Completed(ev, feedsToFetch, promises, doc, k, outgoing) ==
    [ev |-> ev, feeds |-> feedsToFetch, results |-> promises, doc |-> doc, k |-> k,
     replaced |-> { [link |-> outgoing[i].link, id |-> outgoing[i].id] :
                      i \in { j \in DOMAIN outgoing : outgoing[j].isFavorite } },
     stale |-> FALSE]

\* import.meta.env without any key
EnvUnset ==
    [VITE_GEMINI_API_KEY |-> "", VITE_PICA_SECRET_KEY |-> "",
     VITE_PICA_TAVILY_CONNECTION_KEY |-> ""]

\* useState<SearchResponse | null>(null)
NoResponse == [source |-> "none", answer |-> "", query |-> ""]

\* the state cells of AIGuidedNews after construction
AIGuidedNewsInit ==
    [searchResponse |-> NoResponse, isLoading |-> FALSE, error |-> NULL,
     useTavilyFallback |-> FALSE]

\* no invocation of handleSearch is suspended
NoSearch ==
    [pc |-> "idle", route |-> "none", query |-> "", log |-> <<>>, value |-> NoResponse,
     reason |-> NULL, ev |-> "none"]

\* the filter cells of NewsAggregator after construction
NoFilters ==
    [selectedCategory |-> NULL, searchTerm |-> "", showFavorites |-> FALSE,
     dateFilter |-> "all"]

\* the AI search view is mounted and left alone
SearchViewUnused ==
    /\ env = EnvUnset
    /\ aiGuidedNews = AIGuidedNewsInit
    /\ search = NoSearch

Init ==
    /\ newsItems = <<>>
    /\ feeds = <<>>
    /\ isLoading = FALSE
    /\ error = NULL
    /\ lastUpdated = NoDate
    /\ feedsRequest = "pending"
    /\ calls = [c \in 1..MaxInFlight |-> Idle]
    /\ now = T0
    /\ last = NoEvent
    /\ SearchViewUnused
    /\ filters = NoFilters

-----------------------------------------------------------------------------
(* fetchAllNews                                                            *)

\* feeds.filter(feed => feed.isActive)
ActiveFeeds(f) == SelectSeq(f, LAMBDA feed : feed.isActive)

\* (mutation: no slice)
FeedsToFetchAll(activeFeeds) == activeFeeds

\* activeFeeds.slice(0, 25)
FeedsToFetch(activeFeeds) == SubSeq(activeFeeds, 1, Min(Len(activeFeeds), MaxFeedsPerPass))

\* fetchRSSFeed(feed.url, feed.title).catch(err => { ...; return []; })
CatchWrap(promise) ==
    IF promise.st = "rejected" THEN Fulfilled(<<>>, "caught") ELSE promise

\* (mutation: a feed that failed makes the whole batch fail)
PromiseAllRejectsOnFailedFeed(promises) ==
    \E k \in DOMAIN promises : promises[k].st = "rejected" \/ promises[k].path = "failed"

\* await Promise.all(allNewsPromises): rejects when one of the promises rejects
PromiseAllRejects(promises) == \E k \in DOMAIN promises : promises[k].st = "rejected"
PromiseAllValues(promises) == [k \in DOMAIN promises |-> promises[k].value]

\* (mutation: every link of the old collection counts as a favorite)
ExistingFavoritesAll(items) == { items[i].link : i \in DOMAIN items }

\* new Set(newsItems.filter(item => item.isFavorite).map(item => item.link))
ExistingFavorites(items) == { items[i].link : i \in { j \in DOMAIN items : items[j].isFavorite } }

\* sortedNews.map(item => ({...item, isFavorite: existingFavorites.has(item.link)}))
WithFavorites(sortedNews, existingFavorites) ==
    [i \in DOMAIN sortedNews |->
        [sortedNews[i] EXCEPT !.isFavorite = sortedNews[i].link \in existingFavorites]]

\* (mutation: the favorites are looked up by id, not by link)
NewsWithFavoritesById(allNewsArrays, closureNewsItems) ==
    LET sortedNews == SortByDateDesc(UniqueByLink(Flat(allNewsArrays)))
        favoriteIds == { closureNewsItems[i].id :
                           i \in { j \in DOMAIN closureNewsItems : closureNewsItems[j].isFavorite } }
    IN  [i \in DOMAIN sortedNews |->
            [sortedNews[i] EXCEPT !.isFavorite = sortedNews[i].id \in favoriteIds]]

\* from the settled promises to the collection handed to setNewsItems;
\* closureNewsItems is the newsItems of the render that created the callback
NewsWithFavorites(allNewsArrays, closureNewsItems) ==
    LET allNews == Flat(allNewsArrays)
        uniqueNews == UniqueByLink(allNews)
        sortedNews == SortByDateDesc(uniqueNews)
    IN  WithFavorites(sortedNews, ExistingFavorites(closureNewsItems))

FreeSlots == { c \in DOMAIN calls : ~calls[c].active }

\* (mutation: the early return clears the collection and its timestamp)
NoActiveFeedsClearing ==
    /\ error' = ErrNoActiveFeeds
    /\ isLoading' = FALSE
    /\ last' = ConfigError
    /\ newsItems' = <<>>
    /\ lastUpdated' = NoDate
    /\ UNCHANGED calls

\* if (activeFeeds.length === 0) { setError(...); setIsLoading(false); return; }
NoActiveFeeds ==
    /\ error' = ErrNoActiveFeeds
    /\ isLoading' = FALSE
    /\ last' = ConfigError
    /\ UNCHANGED <<newsItems, lastUpdated, calls>>

\* the call of fetchAllNews up to its await; f and n are the feeds and newsItems
\* of the render whose callback is called
FetchAllNews(f, n) ==
    LET activeFeeds == ActiveFeeds(f)
    IN  IF Len(activeFeeds) = 0
        THEN NoActiveFeeds
        ELSE /\ FreeSlots # {}
             /\ LET c == CHOOSE x \in FreeSlots : \A y \in FreeSlots : x <= y
                    feedsToFetch == FeedsToFetch(activeFeeds)
                IN  calls' = [calls EXCEPT ![c] =
                                [ active       |-> TRUE,
                                  feedsToFetch |-> feedsToFetch,
                                  newsItems    |-> n,
                                  promises     |-> [k \in DOMAIN feedsToFetch |-> Pending(1)],
                                  after        |-> { x \in DOMAIN calls : calls[x].active },
                                  overtaken    |-> FALSE ]]
             /\ isLoading' = TRUE
             /\ error' = NULL
             /\ last' = Started
             /\ UNCHANGED <<newsItems, lastUpdated>>

\* the suspended invocations once call c has returned: the ones called after it
\* forget it, the ones called before it have been overtaken
CallsWithout(c) ==
    [x \in DOMAIN calls |->
        IF x = c \/ ~calls[x].active THEN Idle
        ELSE IF c \in calls[x].after
             THEN [calls[x] EXCEPT !.after = @ \ {c}]
             ELSE [calls[x] EXCEPT !.overtaken = TRUE]]

\* (mutation: an invocation that was overtaken does not install its results)
CompleteUnlessOvertaken(c, promises, doc, k) ==
    /\ IF calls[c].overtaken
       THEN UNCHANGED <<newsItems, lastUpdated>>
       ELSE /\ newsItems' = NewsWithFavorites(PromiseAllValues(promises), calls[c].newsItems)
            /\ lastUpdated' = DateAt(now)
    /\ last' = [Completed("success", calls[c].feedsToFetch, promises, doc, k, newsItems)
                    EXCEPT !.stale = calls[c].overtaken]
    /\ isLoading' = FALSE
    /\ calls' = CallsWithout(c)
    /\ UNCHANGED error

\* (mutation: the results are merged in the order in which the fetches settled)
CompleteInSettleOrder(c, promises, doc, k) ==
    LET order == SelectSeq([j \in 1..Len(promises) |-> j], LAMBDA j : j # k) \o << k >>
        values == [n \in DOMAIN order |-> promises[order[n]].value]
    IN  /\ newsItems' = NewsWithFavorites(values, calls[c].newsItems)
        /\ lastUpdated' = DateAt(now)
        /\ last' = Completed("success", calls[c].feedsToFetch, promises, doc, k, newsItems)
        /\ isLoading' = FALSE
        /\ calls' = [calls EXCEPT ![c] = Idle]
        /\ UNCHANGED error

\* (mutation: the finally block is left out)
CompleteWithoutFinally(c, promises, doc, k) ==
    /\ newsItems' = NewsWithFavorites(PromiseAllValues(promises), calls[c].newsItems)
    /\ lastUpdated' = DateAt(now)
    /\ last' = Completed("success", calls[c].feedsToFetch, promises, doc, k, newsItems)
    /\ calls' = [calls EXCEPT ![c] = Idle]
    /\ UNCHANGED <<error, isLoading>>

\* the rest of fetchAllNews, run when the last promise (the k-th) of call c settles
Complete(c, promises, doc, k) ==
    LET wrapped == [j \in DOMAIN promises |-> CatchWrap(promises[j])]
        history(ev) == [Completed(ev, calls[c].feedsToFetch, promises, doc, k, newsItems)
                            EXCEPT !.stale = calls[c].overtaken]
    IN  /\ IF PromiseAllRejects(wrapped)
           THEN /\ error' = ErrFetchNews
                /\ last' = history("error")
                /\ UNCHANGED <<newsItems, lastUpdated>>
           ELSE /\ newsItems' = NewsWithFavorites(PromiseAllValues(wrapped), calls[c].newsItems)
                /\ lastUpdated' = DateAt(now)
                /\ last' = history("success")
                /\ UNCHANGED error
        /\ isLoading' = FALSE
        /\ calls' = CallsWithout(c)

\* (mutation: the collection is rewritten each time a fetch settles)
SettleInstallingEach(c, k, p, doc) ==
    LET promises == [calls[c].promises EXCEPT ![k] = p]
    IN  IF \E j \in DOMAIN promises : promises[j].st = "pending"
        THEN /\ calls' = [calls EXCEPT ![c].promises = promises]
             /\ last' = NoEvent
             /\ newsItems' = NewsWithFavorites(PromiseAllValues(promises), calls[c].newsItems)
             /\ UNCHANGED <<isLoading, error, lastUpdated>>
        ELSE Complete(c, promises, doc, k)

\* (mutation: Promise.race in the place of Promise.all)
SettleAsRace(c, k, p, doc) ==
    Complete(c, [calls[c].promises EXCEPT ![k] = p], doc, k)

\* promise k of call c moves to p: the call stays suspended while a promise is pending
Settle(c, k, p, doc) ==
    LET promises == [calls[c].promises EXCEPT ![k] = p]
    IN  IF \E j \in DOMAIN promises : promises[j].st = "pending"
        THEN /\ calls' = [calls EXCEPT ![c].promises = promises]
             /\ last' = NoEvent
             /\ UNCHANGED <<newsItems, isLoading, error, lastUpdated>>
        ELSE Complete(c, promises, doc, k)

PendingFetches ==
    { ck \in (DOMAIN calls) \X (1..Cardinality(FeedIds)) :
        /\ calls[ck[1]].active
        /\ ck[2] \in DOMAIN calls[ck[1]].promises
        /\ calls[ck[1]].promises[ck[2]].st = "pending" }

\* a proxy attempt of a pending fetchRSSFeed fails
ProxyFails ==
    \E ck \in PendingFetches : \E kind \in ProxyFailures :
        /\ Settle(ck[1], ck[2],
                  AfterProxyFailure(calls[ck[1]].promises[ck[2]].proxy, kind), NoDoc)
        /\ UNCHANGED <<feeds, feedsRequest, now, env, aiGuidedNews, search, filters>>

\* a proxy attempt of a pending fetchRSSFeed answers with a payload out of docs
ProxyAnswersFrom(docs) ==
    \E ck \in PendingFetches : \E doc \in docs :
        /\ Settle(ck[1], ck[2],
                  ParseAndExtract(doc, calls[ck[1]].feedsToFetch[ck[2]].title, now), doc)
        /\ UNCHANGED <<feeds, feedsRequest, now, env, aiGuidedNews, search, filters>>

ProxyAnswers == ProxyAnswersFrom(Documents(now))

ProxyAnswersAny == ProxyAnswersFrom(AnyDocuments(now))

-----------------------------------------------------------------------------
(* The other handlers and effects                                          *)

\* (mutation: the matching article is marked, not flipped)
MarkFavoriteIn(prev, id) ==
    [i \in DOMAIN prev |->
        IF prev[i].id = id THEN [prev[i] EXCEPT !.isFavorite = TRUE] ELSE prev[i]]

\* prev.map(item => item.id === id ? {...item, isFavorite: !item.isFavorite} : item)
ToggleFavoriteIn(prev, id) ==
    [i \in DOMAIN prev |->
        IF prev[i].id = id THEN [prev[i] EXCEPT !.isFavorite = ~prev[i].isFavorite] ELSE prev[i]]

\* prevFeeds.map(feed => feed.id === feedId ? {...feed, isActive: !feed.isActive} : feed)
ToggleFeedIn(prevFeeds, feedId) ==
    [i \in DOMAIN prevFeeds |->
        IF prevFeeds[i].id = feedId
        THEN [prevFeeds[i] EXCEPT !.isActive = ~prevFeeds[i].isActive] ELSE prevFeeds[i]]

handleToggleFavorite(id) ==
    /\ newsItems' = ToggleFavoriteIn(newsItems, id)
    /\ last' = NoEvent
    /\ UNCHANGED <<feeds, isLoading, error, lastUpdated, feedsRequest, calls, now, env, aiGuidedNews, search, filters>>

\* (mutation: the articles of the toggled feed are taken off the collection)
handleFeedToggleDropping(feedId) ==
    /\ feeds' = ToggleFeedIn(feeds, feedId)
    /\ newsItems' = SelectSeq(newsItems,
                        LAMBDA item : \A i \in DOMAIN feeds :
                            feeds[i].id = feedId => item.source # feeds[i].title)
    /\ last' = NoEvent
    /\ UNCHANGED <<isLoading, error, lastUpdated, feedsRequest, calls, now, env, aiGuidedNews, search, filters>>

handleFeedToggle(feedId) ==
    /\ feeds' = ToggleFeedIn(feeds, feedId)
    /\ last' = NoEvent
    /\ UNCHANGED <<newsItems, isLoading, error, lastUpdated, feedsRequest, calls, now, env, aiGuidedNews, search, filters>>

\* the mount effect's fetch('/feeds.json') resolves: setFeeds(json), and the
\* effect on feeds.length calls fetchAllNews when the list is not empty
FeedsLoaded ==
    /\ feedsRequest = "pending"
    /\ \E a1 \in BOOLEAN, a2 \in BOOLEAN :
        /\ feeds' = FeedsJson(a1, a2)
        /\ IF Len(feeds') > 0
           THEN FetchAllNews(feeds', newsItems)
           ELSE /\ last' = NoEvent
                /\ UNCHANGED <<newsItems, isLoading, error, lastUpdated, calls>>
    /\ feedsRequest' = "done"
    /\ UNCHANGED <<now, env, aiGuidedNews, search, filters>>

\* the mount effect's fetch fails: setError, setFeeds([])
FeedsLoadFails ==
    /\ feedsRequest = "pending"
    /\ error' = ErrFeedList
    /\ feeds' = <<>>
    /\ feedsRequest' = "done"
    /\ last' = NoEvent
    /\ UNCHANGED <<newsItems, isLoading, lastUpdated, calls, now, env, aiGuidedNews, search, filters>>

\* the Refresh button: disabled={isLoading}
ClickRefresh ==
    /\ ~isLoading
    /\ FetchAllNews(feeds, newsItems)
    /\ UNCHANGED <<feeds, feedsRequest, now, env, aiGuidedNews, search, filters>>

\* the heart of a card; the cards are rendered when !isLoading
ClickFavorite ==
    /\ ~isLoading
    /\ \E i \in DOMAIN newsItems : handleToggleFavorite(newsItems[i].id)

\* the switch of a feed in the feed manager
ClickFeedToggle ==
    \E i \in DOMAIN feeds : handleFeedToggle(feeds[i].id)

\* time passes
Tick ==
    /\ now < T0 + MaxTicks
    /\ now' = now + 1
    /\ last' = NoEvent
    /\ UNCHANGED <<newsItems, feeds, isLoading, error, lastUpdated, feedsRequest, calls>>
    /\ UNCHANGED <<env, aiGuidedNews, search, filters>>

Next ==
    \/ FeedsLoaded
    \/ FeedsLoadFails
    \/ ClickRefresh
    \/ ClickFavorite
    \/ ClickFeedToggle
    \/ ProxyFails
    \/ ProxyAnswers
    \/ Tick

\* the component as the page runs it
Spec == Init /\ [][Next]_vars

\* the page with the feeds serving one of three payloads, the clock standing still,
\* and every proxy request coming to an end: it answers, fails, or is aborted by
\* AbortSignal.timeout(10000)
DocumentsLive(t) ==
    { Xml(<<>>), Xml(<< ItemNow("L1", t) >>), [xml |-> "parsererror", items |-> <<>>] }

ProxyAnswersLive == ProxyAnswersFrom(DocumentsLive(now))

NextLive ==
    \/ FeedsLoaded
    \/ FeedsLoadFails
    \/ ClickRefresh
    \/ ClickFavorite
    \/ ClickFeedToggle
    \/ ProxyFails
    \/ ProxyAnswersLive

SpecLive == Init /\ [][NextLive]_vars /\ WF_vars(ProxyFails \/ ProxyAnswersLive)

-----------------------------------------------------------------------------
(* The handlers as entry points: refreshAll, toggleFavorite and            *)
(* toggleFeedActive called at any time, without the guards of the page     *)

\* every id a caller may pass: those of the collection, and one of no article
NoSuchId == << "none", 0, 0 >>

refreshAll ==
    /\ FetchAllNews(feeds, newsItems)
    /\ UNCHANGED <<feeds, feedsRequest, now, env, aiGuidedNews, search, filters>>

toggleFavorite ==
    \E id \in { newsItems[i].id : i \in DOMAIN newsItems } \cup { NoSuchId } :
        handleToggleFavorite(id)

toggleFeedActive ==
    \E feedId \in FeedIds \cup { "none" } : handleFeedToggle(feedId)

NextEntry ==
    \/ FeedsLoaded
    \/ FeedsLoadFails
    \/ refreshAll
    \/ toggleFavorite
    \/ toggleFeedActive
    \/ ProxyFails
    \/ ProxyAnswers

SpecEntry == Init /\ [][NextEntry]_vars

-----------------------------------------------------------------------------
(* One call of fetchRSSFeed on any document: the state after the feed list *)
(* was loaded with the first feed active, its fetch pending at proxy 1     *)

InitFetch ==
    /\ newsItems = <<>>
    /\ feeds = FeedsJson(TRUE, FALSE)
    /\ isLoading = TRUE
    /\ error = NULL
    /\ lastUpdated = NoDate
    /\ feedsRequest = "done"
    /\ calls = [c \in 1..MaxInFlight |->
                  IF c = 1
                  THEN [ active       |-> TRUE,
                         feedsToFetch |-> ActiveFeeds(feeds),
                         newsItems    |-> <<>>,
                         promises     |-> << Pending(1) >>,
                         after        |-> {},
                         overtaken    |-> FALSE ]
                  ELSE Idle]
    /\ now = T0
    /\ last = NoEvent
    /\ SearchViewUnused
    /\ filters = NoFilters

NextFetch ==
    \/ ProxyFails
    \/ ProxyAnswersAny

SpecFetch == InitFetch /\ [][NextFetch]_vars

-----------------------------------------------------------------------------
(* Overlapping refreshes: refreshAll called while refreshes are under way, *)
(* one feed active, serving one of two articles                            *)

InitOverlap ==
    /\ newsItems = <<>>
    /\ feeds = FeedsJson(TRUE, FALSE)
    /\ isLoading = FALSE
    /\ error = NULL
    /\ lastUpdated = NoDate
    /\ feedsRequest = "done"
    /\ calls = [c \in 1..MaxOverlap |-> Idle]
    /\ now = T0
    /\ last = NoEvent
    /\ SearchViewUnused
    /\ filters = NoFilters

DocumentsOverlap(t) == { Xml(<< ItemNow("L1", t) >>), Xml(<< ItemNow("L2", t) >>) }

ProxyAnswersOverlap == ProxyAnswersFrom(DocumentsOverlap(now))

NextOverlap ==
    \/ refreshAll
    \/ toggleFavorite
    \/ ProxyFails
    \/ ProxyAnswersOverlap

SpecOverlap == InitOverlap /\ [][NextOverlap]_vars

-----------------------------------------------------------------------------
(* A long feed list: up to MaxFeeds feeds, at most one of them switched    *)
(* off, each serving one article of its own; the fetches answer in turn    *)

Digit == << "0", "1", "2", "3", "4", "5", "6", "7", "8", "9" >>
FeedName(i) == "feed" \o Digit[(i \div 10) + 1] \o Digit[(i % 10) + 1]

\* a feed list of n feeds, the one at index off (if any) not active
ManyFeeds(n, off) ==
    [i \in 1..n |-> [id |-> FeedName(i), url |-> FeedName(i), title |-> FeedName(i),
                     isActive |-> i # off]]

InitCap ==
    /\ newsItems = <<>>
    /\ feeds \in { ManyFeeds(n, off) : n \in (MaxFeedsPerPass - 1)..MaxFeeds, off \in 0..MaxFeeds }
    /\ isLoading = FALSE
    /\ error = NULL
    /\ lastUpdated = NoDate
    /\ feedsRequest = "done"
    /\ calls = [c \in 1..MaxInFlight |-> Idle]
    /\ now = T0
    /\ last = NoEvent
    /\ SearchViewUnused
    /\ filters = NoFilters

\* the first pending fetch of a refresh gets its answer: one article, linked to the
\* feed's own url
ProxyAnswersInTurn ==
    \E c \in DOMAIN calls :
        /\ calls[c].active
        /\ LET k == CHOOSE x \in DOMAIN calls[c].promises :
                        /\ calls[c].promises[x].st = "pending"
                        /\ \A y \in 1..(x - 1) : calls[c].promises[y].st # "pending"
               feed == calls[c].feedsToFetch[k]
               doc == Xml(<< RawItem("T", feed.url, Rfc822(now)) >>)
           IN  Settle(c, k, ParseAndExtract(doc, feed.title, now), doc)
        /\ UNCHANGED <<feeds, feedsRequest, now, env, aiGuidedNews, search, filters>>

NextCap ==
    \/ ClickRefresh
    \/ ProxyAnswersInTurn

SpecCap == InitCap /\ [][NextCap]_vars

-----------------------------------------------------------------------------
(* One call of fetchRSSFeed on documents with items whose processing       *)
(* raises an exception                                                     *)

MaxFaultItems == 3   \* <item> elements of such a document

ItemsWithFaults(t) ==
    { ItemNow("L1", t), ItemNow("L2", t), ItemYearOld("L1", t),
      ItemThrowing("L1", t, "early"), ItemThrowing("L1", t, "late") }

DocumentsWithFaults(t) == { Xml(items) : items \in SeqsUpTo(ItemsWithFaults(t), MaxFaultItems) }

ProxyAnswersWithFaults == ProxyAnswersFrom(DocumentsWithFaults(now))

NextFault ==
    \/ ProxyFails
    \/ ProxyAnswersWithFaults

SpecFault == InitFetch /\ [][NextFault]_vars

-----------------------------------------------------------------------------
(* The AI search view: AIGuidedNews and multiAgentApi                      *)

GeminiPlaceholder == "your_gemini_api_key_here"
PicaSecretPlaceholder == "your_pica_secret_key_here"
PicaTavilyPlaceholder == "your_pica_tavily_connection_key_here"

\* the builds: each key unset, blank (Gemini), left at its placeholder or real
Envs ==
    [VITE_GEMINI_API_KEY : {"", " ", GeminiPlaceholder, "g-key"},
     VITE_PICA_SECRET_KEY : {"", PicaSecretPlaceholder, "p-key"},
     VITE_PICA_TAVILY_CONNECTION_KEY : {"", PicaTavilyPlaceholder, "t-key"}]

\* what the user searches for
SearchQueries == {"", " ", "q1", "q2"}

checkAPIKeys(e) ==
    LET geminiKey == e.VITE_GEMINI_API_KEY
        picaSecret == e.VITE_PICA_SECRET_KEY
        picaTavily == e.VITE_PICA_TAVILY_CONNECTION_KEY
        hasGemini == geminiKey # "" /\ geminiKey # GeminiPlaceholder
        hasTavily ==
            /\ picaSecret # "" /\ picaTavily # ""
            /\ picaSecret # PicaSecretPlaceholder /\ picaTavily # PicaTavilyPlaceholder
    IN  [hasGemini |-> hasGemini, hasTavily |-> hasTavily,
         hasAny |-> hasGemini \/ hasTavily]

\* const apiStatus = checkAPIKeys()
apiStatus == checkAPIKeys(env)

ErrNoKeys ==
    "No API keys configured. Please set up your API keys in the environment variables to use AI search."
ErrNoValidConfig ==
    "No valid API configuration found. Please check your environment variables."
ErrGeminiKey ==
    "Gemini API key not configured. Please set VITE_GEMINI_API_KEY in your .env file. Get your API key from https://makersuite.google.com/app/apikey"
ErrGeminiQuota ==
    "Gemini API quota exceeded. Please check your billing settings or try again later."
ErrGeminiEmpty ==
    "Gemini returned an empty response. Please try rephrasing your query or try again later."
ErrGeminiUnexpected == "Unexpected error during Gemini search: "
GeminiOnlyAdvice ==
    " You can try enabling Tavily fallback for enhanced search capabilities, or check your API configuration."
ErrTavilyAuth ==
    "Tavily API authentication failed. Please check your VITE_PICA_SECRET_KEY and VITE_PICA_TAVILY_CONNECTION_KEY in the .env file."
ErrAllFailed ==
    "All search methods failed. Please check your API configurations and try again."

\* a settled promise of a search function
Found(value) == [ok |-> TRUE, value |-> value, message |-> NULL]
Failed(message) == [ok |-> FALSE, value |-> NoResponse, message |-> message]

\* what the Gemini service does with a request
GeminiOutcomes == {"text", "empty", "quota"}

\* the messages the outer catch of searchWithGemini throws on unchanged: those of
\* the model that hold 'API key' or 'quota'
GeminiDescriptive == {ErrGeminiKey, ErrGeminiQuota}

\* the outer catch of searchWithGemini
GeminiCatch(message) ==
    IF message \in GeminiDescriptive
    THEN Failed(message)
    ELSE Failed(ErrGeminiUnexpected \o message)

\* searchWithGemini before its await: the key check
GeminiKeyUsable(e) ==
    LET key == e.VITE_GEMINI_API_KEY
    IN  ~(key = "" \/ Trim(key) = "" \/ key = GeminiPlaceholder)

\* searchWithGemini after its await
searchWithGemini(outcome, query) ==
    CASE outcome = "text" -> Found([source |-> "gemini", answer |-> "text", query |-> query])
      [] outcome = "empty" -> GeminiCatch(ErrGeminiEmpty)
      [] outcome = "quota" -> GeminiCatch(ErrGeminiQuota)

\* what the Tavily service does with a request
TavilyOutcomes == {"answer", "noanswer", "401"}

\* searchWithTavily before its await: neither of the two key checks throws
TavilyKeysUsable(e) ==
    LET secret == e.VITE_PICA_SECRET_KEY
        connection == e.VITE_PICA_TAVILY_CONNECTION_KEY
    IN  /\ ~(secret = "" \/ connection = "")
        /\ ~(secret = PicaSecretPlaceholder \/ connection = PicaTavilyPlaceholder)

\* searchWithTavily after its await; the service echoes a query
searchWithTavily(outcome, echoed) ==
    CASE outcome = "answer" -> Found([source |-> "tavily", answer |-> "summary", query |-> echoed])
      [] outcome = "noanswer" ->
            Found([source |-> "tavily", answer |-> "No summary available", query |-> echoed])
      [] outcome = "401" -> Failed(ErrTavilyAuth)

\* the calls of the search functions an invocation of handleSearch has made
LogCall(log, api, result) == Append(log, [api |-> api, result |-> result])
LogSettle(log, result) == [log EXCEPT ![Len(log)].result = result]

\* multiAgentNewsSearch, step 2: the Tavily search is called; its failure becomes
\* the one error of the function
FallBackToTavily(s) ==
    IF TavilyKeysUsable(env)
    THEN [s EXCEPT !.pc = "tavily", !.log = LogCall(@, "tavily", "pending")]
    ELSE [s EXCEPT !.pc = "rejected", !.log = LogCall(@, "tavily", "rejected"),
                   !.reason = ErrAllFailed]

\* (mutation: searchWithGeminiOnly falls back to Tavily as well)
GeminiRejectedFallingBack(s, message) ==
    FallBackToTavily([s EXCEPT !.log = LogSettle(@, "rejected")])

\* the catch of the Gemini failure in multiAgentNewsSearch and in
\* searchWithGeminiOnly
GeminiRejected(s, message) ==
    LET logged == [s EXCEPT !.log = LogSettle(@, "rejected")]
    IN  IF s.route = "multiAgentNewsSearch"
        THEN FallBackToTavily(logged)
        ELSE [logged EXCEPT !.pc = "rejected", !.reason = message \o GeminiOnlyAdvice]

\* both functions begin with a call of searchWithGemini
CallGemini(s) ==
    LET called == [s EXCEPT !.log = LogCall(@, "gemini", "pending")]
    IN  IF GeminiKeyUsable(env)
        THEN [called EXCEPT !.pc = "gemini"]
        ELSE GeminiRejected(called, GeminiCatch(ErrGeminiKey).message)

\* the try block of handleSearch up to its await
Route ==
    IF aiGuidedNews.useTavilyFallback /\ apiStatus.hasTavily THEN "multiAgentNewsSearch"
    ELSE IF apiStatus.hasGemini THEN "searchWithGeminiOnly"
    ELSE "none"

Aggregator ==
    <<newsItems, feeds, isLoading, error, lastUpdated, feedsRequest, calls, now, last, filters>>

\* (mutation: the error of the previous search is kept)
handleSearchKeepingError(searchQuery) ==
    /\ IF Trim(searchQuery) = ""
       THEN /\ aiGuidedNews' = aiGuidedNews
            /\ search' = [search EXCEPT !.ev = "blank"]
       ELSE IF ~apiStatus.hasAny
       THEN /\ aiGuidedNews' = [aiGuidedNews EXCEPT !.error = ErrNoKeys]
            /\ search' = [search EXCEPT !.ev = "nokeys"]
       ELSE /\ aiGuidedNews' = [aiGuidedNews EXCEPT !.isLoading = TRUE]
            /\ LET s == [NoSearch EXCEPT !.route = Route, !.query = searchQuery,
                                         !.ev = "start"]
               IN  search' = IF Route = "none"
                             THEN [s EXCEPT !.pc = "rejected", !.reason = ErrNoValidConfig]
                             ELSE CallGemini(s)
    /\ UNCHANGED env
    /\ UNCHANGED Aggregator

handleSearch(searchQuery) ==
    /\ IF Trim(searchQuery) = ""
       THEN /\ aiGuidedNews' = aiGuidedNews
            /\ search' = [search EXCEPT !.ev = "blank"]
       ELSE IF ~apiStatus.hasAny
       THEN /\ aiGuidedNews' = [aiGuidedNews EXCEPT !.error = ErrNoKeys]
            /\ search' = [search EXCEPT !.ev = "nokeys"]
       ELSE /\ aiGuidedNews' = [aiGuidedNews EXCEPT !.isLoading = TRUE, !.error = NULL]
            /\ LET s == [NoSearch EXCEPT !.route = Route, !.query = searchQuery,
                                         !.ev = "start"]
               IN  search' = IF Route = "none"
                             THEN [s EXCEPT !.pc = "rejected", !.reason = ErrNoValidConfig]
                             ELSE CallGemini(s)
    /\ UNCHANGED env
    /\ UNCHANGED Aggregator

\* the Gemini service settles the request: a result is returned by either function,
\* a failure goes to its catch
GeminiAnswers ==
    /\ search.pc = "gemini"
    /\ \E outcome \in GeminiOutcomes :
        LET geminiResult == searchWithGemini(outcome, search.query)
        IN  search' =
                IF geminiResult.ok
                THEN [search EXCEPT !.pc = "fulfilled", !.value = geminiResult.value,
                                    !.log = LogSettle(@, "fulfilled"), !.ev = "settle"]
                ELSE [GeminiRejected(search, geminiResult.message) EXCEPT !.ev = "settle"]
    /\ UNCHANGED <<env, aiGuidedNews>>
    /\ UNCHANGED Aggregator

\* the Tavily service settles the request of multiAgentNewsSearch
TavilyAnswers ==
    /\ search.pc = "tavily"
    /\ \E outcome \in TavilyOutcomes, echoed \in {search.query, "q3"} :
        LET tavilyResult == searchWithTavily(outcome, echoed)
        IN  search' =
                IF tavilyResult.ok
                THEN [search EXCEPT !.pc = "fulfilled", !.value = tavilyResult.value,
                                    !.log = LogSettle(@, "fulfilled"), !.ev = "settle"]
                ELSE [search EXCEPT !.pc = "rejected", !.reason = ErrAllFailed,
                                    !.log = LogSettle(@, "rejected"), !.ev = "settle"]
    /\ UNCHANGED <<env, aiGuidedNews>>
    /\ UNCHANGED Aggregator

\* handleSearch after its await: setSearchResponse, or the catch; then the finally
HandleSearchResumes ==
    /\ search.pc \in {"fulfilled", "rejected"}
    /\ aiGuidedNews' =
          IF search.pc = "fulfilled"
          THEN [aiGuidedNews EXCEPT !.searchResponse = search.value, !.isLoading = FALSE]
          ELSE [aiGuidedNews EXCEPT !.error = search.reason, !.isLoading = FALSE]
    /\ search' = [search EXCEPT !.pc = "idle",
                                !.ev = IF search.pc = "fulfilled" THEN "success" ELSE "failure"]
    /\ UNCHANGED env
    /\ UNCHANGED Aggregator

\* the search box, the search button, the category and the sample question buttons
\* are disabled while a search is loading
SubmitSearch ==
    /\ ~aiGuidedNews.isLoading
    /\ \E searchQuery \in SearchQueries : handleSearch(searchQuery)

\* the switch between Gemini only and Gemini with the Tavily fallback
ToggleTavilyFallback ==
    /\ apiStatus.hasTavily
    /\ aiGuidedNews' = [aiGuidedNews EXCEPT !.useTavilyFallback = ~@]
    /\ search' = [search EXCEPT !.ev = "none"]
    /\ UNCHANGED env
    /\ UNCHANGED Aggregator

InitSearch ==
    /\ newsItems = <<>>
    /\ feeds = <<>>
    /\ isLoading = FALSE
    /\ error = NULL
    /\ lastUpdated = NoDate
    /\ feedsRequest = "pending"
    /\ calls = [c \in 1..MaxInFlight |-> Idle]
    /\ now = T0
    /\ last = NoEvent
    /\ env \in Envs
    /\ aiGuidedNews = AIGuidedNewsInit
    /\ search = NoSearch
    /\ filters = NoFilters

NextSearch ==
    \/ SubmitSearch
    \/ GeminiAnswers
    \/ TavilyAnswers
    \/ HandleSearchResumes
    \/ ToggleTavilyFallback

SpecSearch == InitSearch /\ [][NextSearch]_vars

-----------------------------------------------------------------------------
(* NewsAggregator: the filtered view                                       *)

OneDay == 24                 \* 1000 * 60 * 60 * 24 ms, in hours

Categories == {"General", "Politics", "Technology"}
SearchTerms == {"", "rust", "VO", "."}
DateFilters == {"all", "today", "week", "month"}

matchesCategory(item, f) ==
    f.selectedCategory = NULL \/ item.category = f.selectedCategory

\* (mutation: the search compares the text as it is written)
matchesSearchCaseSensitive(item, f) ==
    \/ f.searchTerm = ""
    \/ Includes(Chars(item.title), Chars(f.searchTerm))
    \/ Includes(Chars(item.description), Chars(f.searchTerm))

matchesSearch(item, f) ==
    \/ f.searchTerm = ""
    \/ Includes(ToLowerCase(Chars(item.title)), ToLowerCase(Chars(f.searchTerm)))
    \/ Includes(ToLowerCase(Chars(item.description)), ToLowerCase(Chars(f.searchTerm)))

matchesFavorites(item, f) == ~f.showFavorites \/ item.isFavorite

\* diffDays < n, with diffDays = diffTime / (1000 * 60 * 60 * 24)
matchesDate(item, f, t) ==
    LET diffTime == t - PubTime(item)
    IN  CASE f.dateFilter = "today" -> diffTime < 1 * OneDay
          [] f.dateFilter = "week" -> diffTime < 7 * OneDay
          [] f.dateFilter = "month" -> diffTime < 30 * OneDay
          [] OTHER -> TRUE

\* the comparator of the sort: category A-Z, then newest first
CompareCategoryThenDate(a, b) ==
    IF CharsLess(Chars(a.category), Chars(b.category)) THEN 0 - 1
    ELSE IF CharsLess(Chars(b.category), Chars(a.category)) THEN 1
    ELSE PubTime(b) - PubTime(a)

\* Array.prototype.sort is stable: an element goes behind those it does not precede
RECURSIVE InsertByCategoryThenDate(_, _)
InsertByCategoryThenDate(sorted, x) ==
    IF sorted = <<>> THEN << x >>
    ELSE IF CompareCategoryThenDate(x, Head(sorted)) < 0
         THEN << x >> \o sorted
         ELSE << Head(sorted) >> \o InsertByCategoryThenDate(Tail(sorted), x)

RECURSIVE SortByCategoryThenDate(_, _)
SortByCategoryThenDate(sorted, rest) ==
    IF rest = <<>> THEN sorted
    ELSE SortByCategoryThenDate(InsertByCategoryThenDate(sorted, Head(rest)), Tail(rest))

\* const filteredNews = newsItems.filter(...).sort(...)
filteredNews(items, f, t) ==
    LET kept == SelectSeq(items, LAMBDA item :
                    /\ matchesCategory(item, f) /\ matchesSearch(item, f)
                    /\ matchesFavorites(item, f) /\ matchesDate(item, f, t))
    IN  SortByCategoryThenDate(<<>>, kept)

\* a step of the filter controls writes the filter cells only
FiltersOnly ==
    /\ last' = NoEvent
    /\ UNCHANGED <<newsItems, feeds, isLoading, error, lastUpdated, feedsRequest, calls, now,
                   env, aiGuidedNews, search>>

\* the category buttons
setSelectedCategory ==
    /\ \E category \in Categories \cup { NULL } :
        filters' = [filters EXCEPT !.selectedCategory = category]
    /\ FiltersOnly

\* the search bar
setSearchTerm ==
    /\ \E term \in SearchTerms : filters' = [filters EXCEPT !.searchTerm = term]
    /\ FiltersOnly

\* the favorites button: setShowFavorites(!showFavorites)
setShowFavorites ==
    /\ filters' = [filters EXCEPT !.showFavorites = ~@]
    /\ FiltersOnly

\* the date buttons
setDateFilter ==
    /\ \E key \in DateFilters : filters' = [filters EXCEPT !.dateFilter = key]
    /\ FiltersOnly

\* what the feed serves to the refresh before the user turns to the filters: articles
\* of three categories, of one category and one date, and of ages at the edges of
\* the date filters
FilterDocuments(t) ==
    { Xml(<<>>),
      Xml(<< Story("Rust", "", "L1", Rfc822(t)),
             Story("Vote", "RUST", "L2", Rfc822(t - OneDay + 1)),
             Story("T", "", "L3", Rfc822(t - OneDay)) >>),
      Xml(<< Story("T", "", "L1", Rfc822(t - 7 * OneDay + 1)),
             Story("Vote", "", "L2", Rfc822(t - 7 * OneDay)),
             Story("Rust", "", "L3", Rfc822(t - 30 * OneDay + 1)),
             Story("T", "RUST", "L4", Rfc822(t - 30 * OneDay)) >>),
      Xml(<< Story("Vote", "", "L1", Rfc822(t - 1)),
             Story("Vote", "", "L2", Rfc822(t)),
             Story("Vote", "", "L3", Rfc822(t)),
             Story("T", "", "L4", Rfc822(t)) >>) }

\* the first refresh has completed
InitFilter ==
    /\ \E doc \in FilterDocuments(T0) :
        newsItems = NewsWithFavorites(
                        PromiseAllValues(<< CatchWrap(ParseAndExtract(doc, "A", T0)) >>), <<>>)
    /\ feeds = FeedsJson(TRUE, FALSE)
    /\ isLoading = FALSE
    /\ error = NULL
    /\ lastUpdated = DateAt(T0)
    /\ feedsRequest = "done"
    /\ calls = [c \in 1..MaxInFlight |-> Idle]
    /\ now = T0
    /\ last = NoEvent
    /\ SearchViewUnused
    /\ filters = NoFilters

NextFilter ==
    \/ setSelectedCategory
    \/ setSearchTerm
    \/ setShowFavorites
    \/ setDateFilter
    \/ ClickFavorite
    \/ Tick

SpecFilter == InitFilter /\ [][NextFilter]_vars

-----------------------------------------------------------------------------
(* Properties                                                              *)

LinksOf(items) == { items[i].link : i \in DOMAIN items }

\* an article without its favorite mark
Unmarked(item) == [item EXCEPT !.isFavorite = FALSE]

\* the step just taken completed a refresh
JustCompleted == last.ev \in {"success", "error"}

\* C1: in every reachable state the links of the articles of the displayed
\* collection are pairwise distinct.
C1_LinksPairwiseDistinct ==
    \A i, j \in DOMAIN newsItems : i # j => newsItems[i].link # newsItems[j].link

\* C1 witness: after a favorite was marked, a refresh whose two feeds both returned
\* the same link has installed a collection that holds this link.
C1_Witness_DuplicateAcrossFeedsInstalled ==
    /\ last.ev = "success"
    /\ last.replaced # {}
    /\ Len(last.results) = 2
    /\ \E l \in LinksOf(last.results[1].value) \cap LinksOf(last.results[2].value) :
        l \in LinksOf(newsItems)

\* C2: favorite preservation.  When a refresh installs its collection, every link
\* that was marked favorite in the collection it replaces and that is among the new
\* results is marked favorite in the installed collection.
C2_FavoritePreserved ==
    [][ last'.ev = "success" =>
          \A i \in DOMAIN newsItems : \A j \in DOMAIN newsItems' :
              (newsItems[i].isFavorite /\ newsItems'[j].link = newsItems[i].link)
                  => newsItems'[j].isFavorite ]_vars

\* C2 witness: a refresh has just installed an article that is marked favorite, and
\* the favorite of the replaced collection with that link had another id.
C2_Witness_FavoriteCarriedToNewId ==
    /\ last.ev = "success"
    /\ \E j \in DOMAIN newsItems : \E f \in last.replaced :
        /\ newsItems[j].isFavorite
        /\ newsItems[j].link = f.link
        /\ newsItems[j].id # f.id

\* C3 (as claimed): the favorite links a refresh carries forward are those marked
\* favorite in the outgoing collection at the moment the collection is replaced, so
\* a toggleFavorite made while the refresh is under way shows in the installed
\* collection.
C3_FavoritesOfOutgoingCollection ==
    [][ last'.ev = "success" =>
          \A j \in DOMAIN newsItems' :
              newsItems'[j].isFavorite = (newsItems'[j].link \in ExistingFavorites(newsItems))
      ]_vars

\* the first article with the given link in the feeds' results taken in feed order
FirstSeen(results, link) ==
    LET k == CHOOSE x \in DOMAIN results :
                 /\ link \in LinksOf(results[x].value)
                 /\ \A y \in 1..(x - 1) : link \notin LinksOf(results[y].value)
        v == results[k].value
        i == CHOOSE x \in DOMAIN v :
                 /\ v[x].link = link
                 /\ \A y \in 1..(x - 1) : v[y].link # link
    IN  v[i]

\* C4: cross-feed deduplication is first-seen-wins.  After a refresh, for every link
\* among the feeds' results the collection holds exactly one article with it, and
\* that article is the one of the earliest feed in feed-list order that returned the
\* link, whichever promise settled last.
C4_FirstSeenWinsAcrossFeeds ==
    last.ev = "success" =>
        \A l \in UNION { LinksOf(last.results[k].value) : k \in DOMAIN last.results } :
            /\ Cardinality({ i \in DOMAIN newsItems : newsItems[i].link = l }) = 1
            /\ \A i \in DOMAIN newsItems :
                  newsItems[i].link = l => Unmarked(newsItems[i]) = FirstSeen(last.results, l)

\* C4 witness: both feeds returned link L1 with different dates, the first feed's
\* promise settled last, and the collection holds the first feed's article.
C4_Witness_SameLinkFromTwoFeeds ==
    /\ last.ev = "success"
    /\ Len(last.results) = 2
    /\ last.k = 1
    /\ \E a \in Range(last.results[1].value) : \E b \in Range(last.results[2].value) :
        /\ a.link = "L1" /\ b.link = "L1"
        /\ a.pubDate # b.pubDate
        /\ \E i \in DOMAIN newsItems : newsItems[i].id = a.id

\* the timestamp of an article's pubDate, and the time of the fetch that built it
\* (the Date.now() of its id)
PubDateOf(article) == DateParse(article.pubDate)
FetchTimeOf(article) == article.id[3]

\* C5: every article fetchRSSFeed accepts has a pubDate that parses to a timestamp T
\* with now - 1 year <= T <= now, now being the time of the fetch; an item of the
\* document whose date does not parse, is more than a year old (400 days, say) or
\* lies ahead (one hour, say) yields no article.
C5_AcceptedWithinOneYearOfFetch ==
    (last.ev = "success" /\ last.doc.xml = "ok") =>
        LET value == last.results[last.k].value
            items == last.doc.items
        IN  /\ \A a \in Range(value) :
                /\ PubDateOf(a) # NaN
                /\ now - OneYear <= PubDateOf(a)
                /\ PubDateOf(a) <= now
            /\ \A i \in DOMAIN items :
                LET T == DateParse(items[i].pubDate)
                IN  (T = NaN \/ T < now - OneYear \/ T > now)
                        => \A a \in Range(value) : a.id[2] # i - 1

\* C5 witness: a document with an item 400 days old, an item one hour ahead, an item
\* whose date does not parse and one more item was fetched; one article came of it.
C5_Witness_ThreeRejectedOneAccepted ==
    /\ last.ev = "success"
    /\ Len(last.doc.items) = 4
    /\ RawItem("T", "L1", Rfc822(now - Days400)) \in Range(last.doc.items)
    /\ ItemAhead("L2", now) \in Range(last.doc.items)
    /\ RawItem("T", "L1", Garbage) \in Range(last.doc.items)
    /\ Len(last.results[1].value) = 1
    /\ Len(newsItems) = 1

UnmarkedNews == [i \in DOMAIN newsItems |-> Unmarked(newsItems[i])]

\* C7: partial failure is silent.  When a refresh of two active feeds completes and
\* the fetch of one feed failed while the fetch of the other did not, the refresh is
\* a success: the collection is exactly the other feed's accepted articles,
\* lastUpdated is the time of completion, error is null and loading is cleared.
C7_PartialFailureIsSilent ==
    (JustCompleted /\ Len(last.results) = 2) =>
        \A a, b \in DOMAIN last.results :
            (a # b /\ last.results[a].path = "failed" /\ last.results[b].path # "failed") =>
                /\ last.ev = "success"
                /\ error = NULL
                /\ lastUpdated = DateAt(now)
                /\ ~isLoading
                /\ UnmarkedNews = last.results[b].value

\* C7 witness: the first feed lost its third proxy last, the second feed had
\* delivered articles, and the refresh installed a collection that is not empty.
C7_Witness_FirstFeedFailedSecondDelivered ==
    /\ last.ev = "success"
    /\ Len(last.results) = 2
    /\ last.k = 1
    /\ last.doc = NoDoc
    /\ last.results[1].path = "failed"
    /\ last.results[2].path = "ok"
    /\ newsItems # <<>>
    /\ error = NULL

\* C8: a call of fetchAllNews with no active feed (the list empty, not yet loaded or
\* all switched off) sets the configuration error, starts no fetch, leaves the
\* collection and lastUpdated as they were and leaves loading cleared.
C8_NoActiveFeedsIsConfigurationError ==
    [][ (last'.ev \in {"start", "config"} /\ ActiveFeeds(feeds') = <<>>) =>
            /\ last'.ev = "config"
            /\ error' = ErrNoActiveFeeds
            /\ calls' = calls
            /\ newsItems' = newsItems
            /\ lastUpdated' = lastUpdated
            /\ ~isLoading' ]_vars

\* C8 witness: the configuration error was just reported with every feed switched
\* off, over a collection that is not empty and has its timestamp.
C8_Witness_ConfigErrorOverDisplayedCollection ==
    /\ last.ev = "config"
    /\ error = ErrNoActiveFeeds
    /\ Len(feeds) > 0
    /\ newsItems # <<>>
    /\ lastUpdated # NoDate
    /\ ~isLoading

\* C9 (as claimed): when every fetch of a refresh has failed, the refresh sets an
\* error and the collection after it is the collection before it.
C9_TotalFailureKeepsCollection ==
    [][ ( /\ last'.ev \in {"success", "error"}
          /\ \A k \in DOMAIN last'.results : last'.results[k].path = "failed" ) =>
            /\ error' # NULL
            /\ newsItems' = newsItems ]_vars

\* C10: fetchRSSFeed never rejects.  No promise of a fetch, pending or settled, is
\* rejected; a fetch whose last proxy failed or whose payload had a parsererror
\* resolved to the empty list; and no refresh ended in the aggregate error.
C10_FetchNeverThrows ==
    /\ \A c \in DOMAIN calls : \A k \in DOMAIN calls[c].promises :
        /\ calls[c].promises[k].st # "rejected"
        /\ calls[c].promises[k].path = "failed" => calls[c].promises[k].value = <<>>
    /\ JustCompleted =>
        /\ \A k \in DOMAIN last.results : last.results[k].st = "fulfilled"
        /\ (last.doc = NoDoc \/ last.doc.xml = "parsererror") =>
                last.results[last.k] = Fulfilled(<<>>, "failed")
        /\ last.ev = "success"

\* C10 witness: of two feeds the one that settled last had a payload with a
\* parsererror, and the refresh installed the other feed's articles.
C10_Witness_ParserErrorDidNotAbortBatch ==
    /\ last.ev = "success"
    /\ Len(last.results) = 2
    /\ last.doc.xml = "parsererror"
    /\ last.results[last.k].value = <<>>
    /\ newsItems # <<>>

\* C11: the proxies of one fetchRSSFeed call are tried in their listed order.  In
\* every step, a fetch pending at proxy i either stays there, moves to proxy i + 1,
\* or settles; a settled fetch contacts no proxy any more; a fetch settles by a
\* failure only when its last proxy has failed, and then with the empty list; and
\* a fetch settled by an answer holds what parsing that answer's payload gives.
C11_ProxiesInListedOrder ==
    [][ \A c \in DOMAIN calls : calls[c].active =>
          \A k \in DOMAIN calls[c].promises :
            LET p == calls[c].promises[k]
                q == IF calls'[c].active THEN calls'[c].promises[k] ELSE last'.results[k]
                settledNow == p.st = "pending" /\ q.st # "pending"
                title == calls[c].feedsToFetch[k].title
            IN  /\ (p.st = "pending" /\ q.st = "pending") =>
                        /\ q.proxy \in {p.proxy, p.proxy + 1}
                        /\ q.proxy <= NumProxies
                /\ p.st # "pending" => q = p
                /\ (settledNow /\ ~calls'[c].active /\ last'.k = k /\ last'.doc = NoDoc) =>
                        /\ p.proxy = NumProxies
                        /\ q = Fulfilled(<<>>, "failed")
                /\ (settledNow /\ ~calls'[c].active /\ last'.k = k /\ last'.doc # NoDoc) =>
                        q = ParseAndExtract(last'.doc, title, now)
      ]_vars

\* C11 witness: the fetch is pending at the last proxy of the list, the ones before
\* it having failed.
C11_Witness_LastProxyContacted ==
    /\ calls[1].active
    /\ calls[1].promises[1] = Pending(NumProxies)
    /\ NumProxies = 3

\* C12: every refresh that sets the loading flag clears it again.  Whenever
\* isLoading is true, a later step completes the refresh, in success or in the
\* aggregate error, and leaves isLoading false.
C12_LoadingEventuallyCleared ==
    isLoading ~> (~isLoading /\ JustCompleted)

\* C12 witness: a refresh whose first feed went through all its proxies has just
\* completed and the loading flag is cleared.
C12_Witness_LoadingClearedAfterFailures ==
    /\ ~isLoading
    /\ last.ev = "success"
    /\ last.results[1].path = "failed"
    /\ last.doc = NoDoc
    /\ \A c \in DOMAIN calls : ~calls[c].active

\* C13: a refresh is a join.  The step that starts a refresh launches one fetch
\* for each selected feed, all of them pending at the first proxy; and a step that
\* sets lastUpdated or installs a collection is the completion of a refresh all of
\* whose fetches have settled, the others before this step and the last one in it.
C13_FanOutFanInJoin ==
    [][ /\ last'.ev = "start" =>
            \E c \in DOMAIN calls :
                /\ ~calls[c].active /\ calls'[c].active
                /\ calls'[c].feedsToFetch = FeedsToFetch(ActiveFeeds(feeds'))
                /\ DOMAIN calls'[c].promises = DOMAIN calls'[c].feedsToFetch
                /\ \A k \in DOMAIN calls'[c].promises : calls'[c].promises[k] = Pending(1)
        /\ (lastUpdated' # lastUpdated \/ last'.ev = "success") =>
            \E c \in DOMAIN calls :
                /\ calls[c].active /\ ~calls'[c].active
                /\ last'.feeds = calls[c].feedsToFetch
                /\ DOMAIN last'.results = DOMAIN calls[c].promises
                /\ \A k \in DOMAIN last'.results :
                    /\ last'.results[k].st # "pending"
                    /\ k # last'.k => last'.results[k] = calls[c].promises[k]
                /\ calls[c].promises[last'.k].st = "pending"
      ]_vars

\* C13 witness: a refresh of two feeds has installed articles of both.
C13_Witness_BothFeedsJoined ==
    /\ last.ev = "success"
    /\ Len(last.results) = 2
    /\ \E i, j \in DOMAIN newsItems : newsItems[i].source = "A" /\ newsItems[j].source = "B"
    /\ lastUpdated = DateAt(now)

\* where an article stands in the results of a refresh: << feed, position >>
PlaceIn(results, article) ==
    CHOOSE kp \in (DOMAIN results) \X (1..MaxItems) :
        /\ kp[2] \in DOMAIN results[kp[1]].value
        /\ results[kp[1]].value[kp[2]] = Unmarked(article)

\* a stands before b: by the later date, and among equal dates by the place in the
\* results taken in feed-list order
StandsBefore(results, a, b) ==
    \/ PubDateOf(a) > PubDateOf(b)
    \/ /\ PubDateOf(a) = PubDateOf(b)
       /\ LET pa == PlaceIn(results, a)
              pb == PlaceIn(results, b)
          IN  pa[1] < pb[1] \/ (pa[1] = pb[1] /\ pa[2] < pb[2])

\* C14: the collection a refresh installs is fixed by what the feeds returned, taken
\* in feed-list order, and not by the order in which the fetches settled: it holds
\* one article for each link, the first seen, ordered by date descending and among
\* equal dates by feed and position in the feed's result, whichever fetch was last.
C14_OrderIndependentOfSettling ==
    last.ev = "success" =>
        /\ { Unmarked(newsItems[i]) : i \in DOMAIN newsItems } =
               { FirstSeen(last.results, l) :
                   l \in UNION { LinksOf(last.results[k].value) : k \in DOMAIN last.results } }
        /\ \A i, j \in DOMAIN newsItems :
               i < j => StandsBefore(last.results, newsItems[i], newsItems[j])

\* C14 witness: the first feed settled last, both feeds returned an article of the
\* same date, and the first feed's article stands first.
C14_Witness_FirstFeedLastToSettleStandsFirst ==
    /\ last.ev = "success"
    /\ Len(last.results) = 2
    /\ last.k = 1
    /\ Len(newsItems) = 2
    /\ PubDateOf(newsItems[1]) = PubDateOf(newsItems[2])
    /\ newsItems[1].source = "A"
    /\ newsItems[2].source = "B"

\* C15: in every reachable state the displayed collection is ordered by publication
\* date descending: of two adjacent articles the earlier one's pubDate is not older
\* than the later one's.  The toggles of favorites and of feeds keep the order.
C15_SortedByDateDescending ==
    \A i \in DOMAIN newsItems :
        i < Len(newsItems) => PubDateOf(newsItems[i]) >= PubDateOf(newsItems[i + 1])

\* C15 witness: a collection of two articles of different dates, the second marked
\* favorite by a toggle, a feed switched off, and the step just taken was no refresh.
C15_Witness_OrderKeptAfterToggles ==
    /\ last.ev = "none"
    /\ Len(newsItems) = 2
    /\ PubDateOf(newsItems[1]) > PubDateOf(newsItems[2])
    /\ newsItems[2].isFavorite
    /\ ~newsItems[1].isFavorite
    /\ \E i \in DOMAIN feeds : ~feeds[i].isActive

\* C16: overlapping refreshes race without a guard.  A refresh may start while
\* others are under way and leaves them as they are; a refresh that completes
\* installs the merge of its own results, also when a refresh started after it has
\* completed before it, and leaves the refreshes still under way suspended.
C16_LastCompletionWins ==
    [][ /\ last'.ev = "start" =>
            \A x \in DOMAIN calls : calls[x].active => calls'[x] = calls[x]
        /\ last'.ev = "success" =>
            /\ { Unmarked(newsItems'[i]) : i \in DOMAIN newsItems' } =
                   { FirstSeen(last'.results, l) :
                       l \in UNION { LinksOf(last'.results[k].value) :
                                       k \in DOMAIN last'.results } }
            /\ lastUpdated' = DateAt(now')
            /\ \E c \in DOMAIN calls :
                /\ calls[c].active /\ ~calls'[c].active
                /\ \A x \in DOMAIN calls \ {c} :
                    /\ calls'[x].active = calls[x].active
                    /\ calls'[x].promises = calls[x].promises
      ]_vars

\* C16 witness: the refresh that just completed and installed its article had been
\* started before a refresh that completed earlier.
C16_Witness_StaleResultInstalled ==
    /\ last.ev = "success"
    /\ last.stale
    /\ newsItems # <<>>
    /\ UnmarkedNews = last.results[1].value

\* C17 (as claimed): the collection is changed by the completion step of a refresh
\* only; every other operation leaves it unchanged.
C17_OnlyCompletionChangesCollection ==
    [][ newsItems' # newsItems => last'.ev = "success" ]_vars

\* C17 (amended): the collection is changed by two operations only.  The completion
\* step of a refresh replaces it whole, by the merge of the results of all the feeds
\* of that refresh, none of them pending.  The toggle of a favorite changes the
\* isFavorite flag of one article and nothing else: the same articles in the same
\* order.  No other step changes it, a fetch that settles before the last one
\* included.
C17_CompletionOrFavoriteToggleOnly ==
    [][ newsItems' # newsItems =>
          \/ /\ last'.ev = "success"
             /\ DOMAIN last'.results = DOMAIN last'.feeds
             /\ \A k \in DOMAIN last'.results : last'.results[k].st = "fulfilled"
             /\ LinksOf(newsItems') =
                    UNION { LinksOf(last'.results[k].value) : k \in DOMAIN last'.results }
          \/ /\ last'.ev = "none"
             /\ calls' = calls
             /\ DOMAIN newsItems' = DOMAIN newsItems
             /\ \A i \in DOMAIN newsItems : Unmarked(newsItems'[i]) = Unmarked(newsItems[i])
             /\ Cardinality({ i \in DOMAIN newsItems :
                                newsItems'[i].isFavorite # newsItems[i].isFavorite }) = 1
      ]_vars

\* C17 witness: the collection holds an article marked favorite by a toggle; a
\* refresh of two feeds is under way, its first fetch has settled with an article
\* whose link the collection does not hold, and its second fetch is pending.
C17_Witness_SettledFetchNotYetDisplayed ==
    /\ \E i \in DOMAIN newsItems : newsItems[i].isFavorite
    /\ calls[1].active
    /\ Len(calls[1].promises) = 2
    /\ calls[1].promises[1].st = "fulfilled"
    /\ calls[1].promises[2].st = "pending"
    /\ LinksOf(calls[1].promises[1].value) # {}
    /\ LinksOf(calls[1].promises[1].value) \cap LinksOf(newsItems) = {}

\* the number of active feeds among the first j of the list
ActiveUpTo(j) == Cardinality({ i \in 1..j : feeds[i].isActive })

\* the feed at index j is one of the first 25 active feeds of the list
AmongFirstActive(j) == feeds[j].isActive /\ ActiveUpTo(j) <= 25

\* the feeds of a pass: no more than 25, each the next active feed of the list
FirstActiveInOrder(fetched) ==
    /\ Len(fetched) <= 25
    /\ \A j \in DOMAIN feeds : AmongFirstActive(j) <=> (feeds[j] \in Range(fetched))
    /\ \A j \in DOMAIN feeds : AmongFirstActive(j) => fetched[ActiveUpTo(j)] = feeds[j]

\* C18: one refresh pass launches at most 25 fetches, for the first 25 active feeds
\* in feed-list order, and the collection it installs holds no article of a later
\* active feed.
C18_AtMostTwentyFiveFeedsPerPass ==
    /\ \A c \in DOMAIN calls : calls[c].active =>
        /\ FirstActiveInOrder(calls[c].feedsToFetch)
        /\ Len(calls[c].promises) = Len(calls[c].feedsToFetch)
    /\ last.ev = "success" =>
        /\ FirstActiveInOrder(last.feeds)
        /\ Len(last.results) = Len(last.feeds)
        /\ \A j \in DOMAIN feeds :
            (\E i \in DOMAIN newsItems : newsItems[i].source = feeds[j].title)
                <=> AmongFirstActive(j)

\* C18 witness: of 27 feeds 26 are active, one of the first 25 being switched off;
\* the refresh has installed 25 articles, one of the 26th feed and none of the 27th.
C18_Witness_TwentySixActiveFeeds ==
    /\ last.ev = "success"
    /\ Len(feeds) = 27
    /\ Len(ActiveFeeds(feeds)) = 26
    /\ Len(newsItems) = 25
    /\ \E i \in DOMAIN newsItems : newsItems[i].source = feeds[26].title
    /\ \A i \in DOMAIN newsItems : newsItems[i].source # feeds[27].title

\* the items of the fetched document, and the articles the fetch returned
FetchedItems == last.doc.items
Returned == last.results[last.k].value

\* the 0-based indices of the items that carry the link
IndicesOfLink(link) == { i - 1 : i \in { j \in DOMAIN FetchedItems : FetchedItems[j].link = link } }

\* item number index (0-based) has a title and a link, and a date that parses and
\* lies within the year before the fetch
PassesValidation(index) ==
    LET item == FetchedItems[index + 1]
        T == DateParse(item.pubDate)
    IN  /\ Trim(item.title) # "" /\ Trim(item.link) # ""
        /\ T # NaN /\ now - OneYear <= T /\ T <= now

\* C19 (as claimed): the links of one fetchRSSFeed result are pairwise distinct, and
\* the article of a link is built from the earliest item of the document that
\* carries the link.
C19_EarliestItemOfLinkWins ==
    (last.ev = "success" /\ last.doc.xml = "ok") =>
        /\ \A i, j \in DOMAIN Returned : i # j => Returned[i].link # Returned[j].link
        /\ \A a \in Range(Returned) :
            \A i \in IndicesOfLink(a.link) : a.id[2] <= i

\* C19 (amended): the links of one fetchRSSFeed result are pairwise distinct, and
\* the article of a link is built from the earliest item carrying the link that
\* passes validation; an item that is rejected for its title or its date does not
\* count as an occurrence, and the later items of the link yield nothing.
C19_EarliestValidItemOfLinkWins ==
    (last.ev = "success" /\ last.doc.xml = "ok") =>
        /\ \A i, j \in DOMAIN Returned : i # j => Returned[i].link # Returned[j].link
        /\ \A a \in Range(Returned) :
            /\ a.id[2] \in IndicesOfLink(a.link)
            /\ PassesValidation(a.id[2])
            /\ \A i \in IndicesOfLink(a.link) : PassesValidation(i) => a.id[2] <= i
        /\ \A i \in 0..(Len(FetchedItems) - 1) :
            PassesValidation(i) => FetchedItems[i + 1].link \in LinksOf(Returned)

\* C19 witness: three items carry one link; the first has no date that parses, the
\* second is accepted, the third is dropped as a duplicate.
C19_Witness_SecondOfThreeWins ==
    /\ last.ev = "success"
    /\ Len(FetchedItems) = 3
    /\ FetchedItems[1] = RawItem("T", "L1", Garbage)
    /\ FetchedItems[2] = ItemNow("L1", now)
    /\ FetchedItems[3] = ItemYearOld("L1", now)
    /\ Len(Returned) = 1
    /\ Returned[1].id[2] = 1

\* C20: a parser error is a failure of the feed, a document without items is not.
\* A fetch answered by a well-formed document with no item returns the empty list
\* by the normal path; a fetch answered by a document with a parsererror goes
\* through the catch block and returns the empty list from there; the two paths
\* differ.
C20_ParserErrorIsNotAnEmptyFeed ==
    last.ev = "success" =>
        /\ last.doc.xml = "parsererror" => Returned = <<>> /\ last.results[last.k].path = "failed"
        /\ last.doc = Xml(<<>>) => Returned = <<>> /\ last.results[last.k].path = "empty"
        /\ \A j, k \in DOMAIN last.results :
            (last.results[j].path = "failed" /\ last.results[k].path = "empty")
                => last.results[j] # last.results[k]

\* C20 witness: of two feeds the first was answered last, by a document with a
\* parsererror, and the second by a document without items.
C20_Witness_ParserErrorAndEmptyFeed ==
    /\ last.ev = "success"
    /\ Len(last.results) = 2
    /\ last.k = 1
    /\ last.doc.xml = "parsererror"
    /\ last.results[1].path = "failed"
    /\ last.results[2].path = "empty"
    /\ last.results[1].value = last.results[2].value

\* what an article says, apart from its id (the id holds the index of the item)
Content(article) == [title |-> article.title, link |-> article.link,
                     pubDate |-> article.pubDate, source |-> article.source]
ContentsOf(articles) == [i \in DOMAIN articles |-> Content(articles[i])]

\* the items of the fetched document whose processing raises no exception
WithoutThrowing == SelectSeq(FetchedItems, LAMBDA item : item.fault = "none")

C22_TitleAndLinkNotBlank ==
    /\ last.ev = "success" =>
        \A a \in Range(Returned) : Trim(a.title) # "" /\ Trim(a.link) # ""
    /\ \A i \in DOMAIN newsItems :
        Trim(newsItems[i].title) # "" /\ Trim(newsItems[i].link) # ""

\* the ids of the displayed articles
DisplayedIds == { newsItems[i].id : i \in DOMAIN newsItems }

\* C23: toggleFavorite(id) on the displayed collection flips isFavorite of the
\* articles whose id is id and changes nothing else in them, nor their order; with
\* an id of no article the collection is unchanged; applied twice it gives the
\* collection back.  A step that toggles a favorite leaves the feed list, error,
\* lastUpdated, the loading flag and the refreshes under way as they are.
C23_ToggleFavoriteFlipsOneFlag ==
    [][ /\ \A id \in DisplayedIds \cup { NoSuchId } :
            LET once == ToggleFavoriteIn(newsItems, id)
                twice == ToggleFavoriteIn(once, id)
            IN  /\ DOMAIN once = DOMAIN newsItems
                /\ \A i \in DOMAIN newsItems :
                    /\ Unmarked(once[i]) = Unmarked(newsItems[i])
                    /\ once[i].isFavorite =
                          IF newsItems[i].id = id THEN ~newsItems[i].isFavorite
                                                  ELSE newsItems[i].isFavorite
                /\ id \notin DisplayedIds => once = newsItems
                /\ twice = newsItems
        /\ (last'.ev = "none" /\ newsItems' # newsItems) =>
            /\ \E id \in DisplayedIds :
                /\ Cardinality({ i \in DOMAIN newsItems : newsItems[i].id = id }) = 1
                /\ newsItems' = ToggleFavoriteIn(newsItems, id)
            /\ feeds' = feeds
            /\ error' = error
            /\ lastUpdated' = lastUpdated
            /\ isLoading' = isLoading
            /\ calls' = calls
      ]_vars

\* C23 witness: of two displayed articles the first is marked favorite and the
\* second is not, and the last step was no step of a refresh.
C23_Witness_OneOfTwoMarked ==
    /\ last.ev = "none"
    /\ ~isLoading
    /\ Len(newsItems) = 2
    /\ newsItems[1].isFavorite
    /\ ~newsItems[2].isFavorite
    /\ lastUpdated # NoDate

\* a feed without its isActive flag
Static(feed) == [id |-> feed.id, url |-> feed.url, title |-> feed.title]

\* C24: once the feed list is loaded, a step that changes it flips the isActive flag
\* of one feed; id, url and title of every feed stay as loaded; the step leaves the
\* displayed collection, lastUpdated, error and the loading flag unchanged and
\* starts no refresh.
C24_ToggleFeedActiveFlipsOneFlag ==
    [][ (feedsRequest = "done" /\ feedsRequest' = "done") =>
          /\ DOMAIN feeds' = DOMAIN feeds
          /\ \A i \in DOMAIN feeds : Static(feeds'[i]) = Static(feeds[i])
          /\ feeds' # feeds =>
              /\ Cardinality({ i \in DOMAIN feeds : feeds'[i].isActive # feeds[i].isActive }) = 1
              /\ newsItems' = newsItems
              /\ lastUpdated' = lastUpdated
              /\ error' = error
              /\ isLoading' = isLoading
              /\ calls' = calls
              /\ last'.ev = "none"
      ]_vars

\* C24 witness: the second feed is switched off, an article of it is displayed, and
\* no refresh is under way.
C24_Witness_ArticlesOfDeactivatedFeedStay ==
    /\ last.ev = "none"
    /\ Len(feeds) = 2
    /\ ~feeds[2].isActive
    /\ \E i \in DOMAIN newsItems : newsItems[i].source = feeds[2].title
    /\ ~isLoading
    /\ \A c \in DOMAIN calls : ~calls[c].active

\* the calls of the search functions made by the latest invocation of handleSearch
ApisCalled == [i \in DOMAIN search.log |-> search.log[i].api]
ResultsOfCalls == [i \in DOMAIN search.log |-> search.log[i].result]

\* C25: an invocation of handleSearch calls Gemini first; Tavily is called only by
\* multiAgentNewsSearch and only after the Gemini search was rejected; a Gemini
\* result is returned without a Tavily call; a result of source 'tavily' comes after
\* a rejected Gemini search; when both are rejected the function rejects with the
\* 'All search methods failed' error, which is the error displayed; and
\* searchWithGeminiOnly makes no Tavily call.
C25_GeminiFirstTavilyOnlyAfterFailure ==
    /\ ApisCalled \in {<<>>, <<"gemini">>, <<"gemini", "tavily">>}
    /\ ApisCalled = <<"gemini", "tavily">> =>
        /\ search.route = "multiAgentNewsSearch"
        /\ ResultsOfCalls[1] = "rejected"
    /\ search.pc = "fulfilled" =>
        /\ search.value.source = "gemini" => ResultsOfCalls = <<"fulfilled">>
        /\ search.value.source = "tavily" => ResultsOfCalls = <<"rejected", "fulfilled">>
        /\ search.value.source \in {"gemini", "tavily"}
    /\ ResultsOfCalls = <<"rejected", "rejected">> =>
        /\ search.pc \in {"rejected", "idle"}
        /\ search.reason = ErrAllFailed
        /\ search.pc = "idle" /\ search.ev = "failure" => aiGuidedNews.error = ErrAllFailed
    /\ (search.route = "multiAgentNewsSearch" /\ search.pc = "rejected") =>
        ResultsOfCalls = <<"rejected", "rejected">>
    /\ search.route = "searchWithGeminiOnly" => ApisCalled = <<"gemini">>

\* C25 witness: the Gemini search was rejected, the Tavily search was then called and
\* its result is displayed.
C25_Witness_TavilyResultAfterGeminiFailure ==
    /\ search.ev = "success"
    /\ search.route = "multiAgentNewsSearch"
    /\ ResultsOfCalls = <<"rejected", "fulfilled">>
    /\ aiGuidedNews.searchResponse.source = "tavily"

\* C26: handleSearch with a blank query changes nothing; without any API key it sets
\* the error and does not enter the loading state; otherwise it sets the loading
\* flag and clears the error; when the search has settled the loading flag is
\* cleared, a result replaces the response, and a failure sets the error and leaves
\* the displayed response as it was. The loading flag is set exactly while an
\* invocation is under way.
C26_HandleSearchOutcomes ==
    [][ LET before == aiGuidedNews
            after == aiGuidedNews'
        IN  /\ search'.ev = "blank" => after = before /\ search'.pc = search.pc
            /\ search'.ev = "nokeys" =>
                /\ ~apiStatus.hasAny
                /\ after = [before EXCEPT !.error = ErrNoKeys]
                /\ ~after.isLoading
                /\ search'.pc = "idle"
            /\ search'.ev = "start" =>
                /\ after.isLoading
                /\ after.error = NULL
                /\ after.searchResponse = before.searchResponse
                /\ search'.pc # "idle"
            /\ search'.ev = "settle" => after = before
            /\ search'.ev = "success" =>
                /\ ~after.isLoading
                /\ after.searchResponse = search.value
                /\ after.searchResponse # NoResponse
                /\ after.error = NULL
            /\ search'.ev = "failure" =>
                /\ ~after.isLoading
                /\ after.error # NULL
                /\ after.searchResponse = before.searchResponse
            /\ after.isLoading <=> search'.pc # "idle"
      ]_vars

\* C26 witness: a search has failed while the response of an earlier search is
\* displayed; the error is set, the response is still there, nothing is loading.
C26_Witness_FailureKeepsResponse ==
    /\ search.ev = "failure"
    /\ aiGuidedNews.searchResponse # NoResponse
    /\ aiGuidedNews.error # NULL
    /\ ~aiGuidedNews.isLoading

\* the view the current render shows
Shown == filteredNews(newsItems, filters, now)

\* an article satisfies all active filters
Satisfies(item) ==
    /\ filters.selectedCategory # NULL => item.category = filters.selectedCategory
    /\ filters.searchTerm # "" =>
          \/ Includes(ToLowerCase(Chars(item.title)), ToLowerCase(Chars(filters.searchTerm)))
          \/ Includes(ToLowerCase(Chars(item.description)),
                      ToLowerCase(Chars(filters.searchTerm)))
    /\ filters.showFavorites => item.isFavorite
    /\ filters.dateFilter = "today" => now - PubTime(item) < OneDay
    /\ filters.dateFilter = "week" => now - PubTime(item) < 7 * OneDay
    /\ filters.dateFilter = "month" => now - PubTime(item) < 30 * OneDay

\* C27: the filtered view holds exactly the articles of the collection that satisfy
\* all active filters (category, search text in title or description ignoring case,
\* favorites only, age below one, seven or thirty days), each once, ordered by
\* category ascending and then publication date descending; and a step that changes
\* the filters leaves the collection as it is.
C27_FilteredViewIsProjection ==
    [][ LET shown == Shown
        IN  /\ \A i \in DOMAIN newsItems :
                Cardinality({ j \in DOMAIN shown : shown[j] = newsItems[i] })
                    = IF Satisfies(newsItems[i]) THEN 1 ELSE 0
            /\ \A j \in DOMAIN shown : \E i \in DOMAIN newsItems : shown[j] = newsItems[i]
            /\ \A i, j \in DOMAIN shown :
                i < j =>
                    /\ ~CharsLess(Chars(shown[j].category), Chars(shown[i].category))
                    /\ shown[i].category = shown[j].category
                          => PubTime(shown[i]) >= PubTime(shown[j])
            /\ filters' # filters => newsItems' = newsItems
      ]_vars

\* C27 witness: with the search term 'rust', favorites only and the week filter on,
\* the view shows two or more articles but not all, one of them found through text
\* written in another case, in another order than the collection has them.
C27_Witness_FiltersNarrowAndReorder ==
    /\ filters.searchTerm = "rust"
    /\ filters.showFavorites
    /\ filters.dateFilter = "week"
    /\ LET shown == Shown
       IN  /\ Len(shown) >= 2
           /\ Len(shown) < Len(newsItems)
           /\ \E i \in DOMAIN shown :
               /\ ~Includes(Chars(shown[i].title), Chars("rust"))
               /\ ~Includes(Chars(shown[i].description), Chars("rust"))
           /\ shown # SelectSeq(newsItems, LAMBDA item : item \in Range(shown))

\* C28: the loading flag is true in every state in which a refresh is in flight
\* (called and not yet completed), also when two refreshes overlap.
C28_LoadingWhileRefreshInFlight ==
    (\E c \in DOMAIN calls : calls[c].active) => isLoading

\* the links of the articles marked favorite
FavoriteLinks(items) ==
    { l \in LinksOf(items) : \E i \in DOMAIN items : items[i].link = l /\ items[i].isFavorite }

\* C29: when a refresh installs a collection, the links marked favorite in it are
\* the links marked favorite in the collection it replaces that are among the links
\* of the new results: the refresh marks no other article, and a favorite whose link
\* is not among the results is marked nowhere afterwards, so that a next refresh
\* which brings the link back installs it unmarked.
C29_FavoritesAreOldMarksAmongNewLinks ==
    [][ last'.ev = "success" =>
          /\ FavoriteLinks(newsItems') = FavoriteLinks(newsItems) \cap LinksOf(newsItems')
          /\ \A l \in FavoriteLinks(newsItems) \ LinksOf(newsItems') :
                LET back == [newsItems[FindIndexByLink(newsItems, l)] EXCEPT !.isFavorite = FALSE]
                IN  FavoriteLinks(NewsWithFavorites(<< << back >> >>, newsItems')) = {}
      ]_vars

\* C29 witness: a refresh has just installed a collection of articles without the
\* link of an article that was marked favorite in the collection it replaced; no
\* article is marked now.
C29_Witness_FavoriteForgotten ==
    /\ last.ev = "success"
    /\ newsItems # <<>>
    /\ \E f \in last.replaced : f.link \notin LinksOf(newsItems)
    /\ FavoriteLinks(newsItems) = {}

\* item number index (0-based) of the fetched document has a date that does not
\* parse, is more than a year old or lies ahead
DateRejected(index) ==
    LET T == DateParse(FetchedItems[index + 1].pubDate)
    IN  T = NaN \/ T < now - OneYear \/ T > now

\* seenLinks after the first k items of the fetched document
SeenAfter(k) ==
    ForEachItem([newsItems |-> <<>>, seenLinks |-> {}], SubSeq(FetchedItems, 1, k), 0,
                last.feeds[last.k].title, OneYearAgo(now), now).seenLinks

\* C30: in fetchRSSFeed the links recorded as seen after any number of items are the
\* links of the items so far that passed validation, the date checks included; and
\* an item that passes validation, when every earlier item of its link was rejected
\* for its date, yields the article of the link.
C30_DateRejectedItemLeavesLinkUnseen ==
    (last.ev = "success" /\ last.doc.xml = "ok") =>
        /\ \A k \in 0..Len(FetchedItems) :
            SeenAfter(k) = { FetchedItems[i + 1].link :
                               i \in { j \in 0..(k - 1) : PassesValidation(j) } }
        /\ \A j \in 0..(Len(FetchedItems) - 1) :
            ( /\ PassesValidation(j)
              /\ \A i \in IndicesOfLink(FetchedItems[j + 1].link) : i < j => DateRejected(i) )
            => \E a \in Range(Returned) :
                  /\ a.link = FetchedItems[j + 1].link
                  /\ a.id[2] = j
                  /\ a.pubDate = ToISOString(DateParse(FetchedItems[j + 1].pubDate))

\* C30 witness: the document holds an item dated one hour ahead and after it an item
\* of the same link dated now; the fetch returned the article of the second.
C30_Witness_ValidItemAfterFutureDated ==
    /\ last.ev = "success"
    /\ FetchedItems = << ItemAhead("L2", now), ItemNow("L2", now) >>
    /\ Len(Returned) = 1
    /\ Returned[1].id[2] = 1
    /\ Returned[1].link = "L2"

=============================================================================
